---- MODULE Spec2Model ----
(***************************************************************************)
(* Model of go-etl: the bucket batching engine (pkg/bucket), the feeder of *)
(* ETL.Run that fills it (pkg/etl/etl.go) and the pipeline manager         *)
(* (pkg/etl/manager.go).                                                   *)
(***************************************************************************)
EXTENDS Integers, Sequences, FiniteSets

\* ---------------------------------------------------------------- bounds
MaxItems == 3
LiveMaxItems == 2
EtlMaxItems == 2
MaxBatch == 2
MaxWorkers == 2
MaxLoad == 4
LiveMaxLoad == 3
MaxPipelines == 3
MaxConc == 2
MaxRaw == 2
ShutMaxLoad == 3
FairMaxPipelines == 2
FairMaxConc == 1
PermitMaxPipelines == 2
PermitMaxConc == 2

\* ------------------------------------------------------ program constants
DefaultBatchSize == 100
DefaultTimeout == 5
DefaultWorkerNum == 1
DefaultManagerWorkerNum == 4

VARIABLES
    cfg,        \* bucket.Config held by the Bucket after New
    extractor,  \* payloads the extraction channel has still to deliver
    fpc,        \* feeder goroutine of ETL.Run: "select", "consume", "done"
    fitem,      \* item the feeder is passing to Consume
    consumer,   \* buffered items of the channel Bucket.consumer
    closed,     \* Bucket.consumer has been closed
    ctxDone,    \* the context given to Run has been cancelled
    procCancel, \* cancel() of procCtx has been called
    rpc,        \* Bucket.Run: "spawn", "wait", "returned"
    spawned,    \* loop counter i of Bucket.Run
    wg,         \* sync.WaitGroup counter of Bucket.Run
    errCh,      \* buffered errors of errCh (worker ids)
    runErr,     \* result of Bucket.Run: 0 is nil, w+1 the error of worker w
    wpc,        \* worker goroutines: "idle", "select", "handler", "report", "done"
    queue,      \* local slice queue of each worker
    wcause,     \* select case from which the worker called flush
    tick,       \* a tick is pending on the worker's ticker.C
    batches,    \* log of the processFunc invocations, in the order they began
    submitted,  \* log of the items Consume has put into the channel
    stream,     \* the whole extraction stream, as the source produces it
    ncloses,    \* number of calls of Bucket.Close
    epc,        \* ETL.Run: "pre", "new", "extract", "bucket", "returned"
    eret,       \* result of ETL.Run: "none" until it returns, "nil" or the error
    calls,      \* log of the calls of PreProcess, Extract and PostProcess
    mcfg,       \* Manager.cfg after NewManager
    npipes,     \* len(Manager.pipelines)
    mpc,        \* Manager.RunAll: "start", "launch", "wait", "returned"
    launched,   \* pipelines RunAll has launched so far
    sem,        \* permits held in the channel sem
    results,    \* buffered values of the channel results
    mwg,        \* sync.WaitGroup counter of RunAll
    ppc,        \* pipeline goroutines: "none", "acquire", "run", "release", "done"
    pstage,     \* stage each pipeline has reached inside pipelineAdapter.Run
    pcalls,     \* per pipeline, log of the calls made on its processor
    mret        \* result of RunAll: 0 is nil, p the error of pipeline p

bvars == <<cfg, extractor, fpc, fitem, consumer, closed, ctxDone, procCancel,
           rpc, spawned, wg, errCh, runErr, wpc, queue, wcause, tick,
           batches, submitted, stream, ncloses>>
evars == <<epc, eret, calls>>
mvars == <<mcfg, npipes, mpc, launched, sem, results, mwg, ppc, mret, pstage, pcalls>>
vars == <<bvars, evars, mvars>>

Workers == 0 .. (MaxWorkers - 1)
Pipes == 1 .. MaxPipelines

\* ------------------------------------------------------------ bucket.New
\* a New that clamps the negative fields only
New_strict(raw) ==
    [BatchSize |-> IF raw.BatchSize < 0 THEN DefaultBatchSize ELSE raw.BatchSize,
     Timeout |-> IF raw.Timeout < 0 THEN DefaultTimeout ELSE raw.Timeout,
     WorkerNum |-> IF raw.WorkerNum < 0 THEN DefaultWorkerNum ELSE raw.WorkerNum]

\* New clamps the non-positive fields of the configuration (Timeout in
\* seconds).
New(raw) ==
    [BatchSize |-> IF raw.BatchSize <= 0 THEN DefaultBatchSize ELSE raw.BatchSize,
     Timeout |-> IF raw.Timeout <= 0 THEN DefaultTimeout ELSE raw.Timeout,
     WorkerNum |-> IF raw.WorkerNum <= 0 THEN DefaultWorkerNum ELSE raw.WorkerNum]

\* a channel with one slot too many
ChanCap_plus == cfg.BatchSize + 1

\* make(chan T, cfg.BatchSize)
ChanCap == cfg.BatchSize

\* The extraction stream: N payloads, the e-th one (if any) carrying an error.
Stream(N, e) == [k \in 1 .. N |-> [Data |-> k, Err |-> (k = e)]]

\* a procCtx that is not derived from the context given to Run
ProcDone_detached == procCancel

\* procCtx is done when its parent is cancelled or cancel() was called.
ProcDone == ctxDone \/ procCancel

\* ------------------------------------------------------------ worker parts
\* flush without its length test
FlushNeeded_always(q) == TRUE

\* flush: processFunc is called only when len(queue) > 0
FlushNeeded(q) == Len(q) > 0

\* the item put in front of the queue
Enqueue_front(q, item) == <<item>> \o q

\* queue = append(queue, item)
Enqueue(q, item) == Append(q, item)

\* the size test off by one
BatchFull_gt(q) == Len(q) > cfg.BatchSize

\* len(queue) >= b.cfg.BatchSize
BatchFull(q) == Len(q) >= cfg.BatchSize

\* the queue not reset after processFunc
ResetQueue_keep(q) == q

\* queue = queue[:0]
ResetQueue(q) == <<>>

\* ETLProcessor.Transform, a function of the item alone
Transform(item) == item + 100

\* the handler of ETL.Run skipping the first item of the batch
Transformed_skipfirst(items) == [k \in 1 .. Len(items) - 1 |-> Transform(items[k + 1])]

\* the handler of ETL.Run: transformed = append(transformed, Transform(item))
\* for every item of the batch, in order; it is the argument of Load
Transformed(items) == [k \in 1 .. Len(items) |-> Transform(items[k])]

\* the index in batches of the call worker w has in flight
InFlight(w) ==
    CHOOSE i \in 1 .. Len(batches) : batches[i].w = w /\ batches[i].res = "run"

\* flush() called by worker w from select case c: either processFunc begins
\* on the queue, or flush returns nil at once and the worker goes to pcNil.
Flush(w, c, q, pcNil) ==
    IF FlushNeeded(q)
    THEN /\ wpc' = [wpc EXCEPT ![w] = "handler"]
         /\ wcause' = [wcause EXCEPT ![w] = c]
         /\ batches' = Append(batches, [w |-> w, items |-> q, cause |-> c, res |-> "run",
                                      loaded |-> Transformed(q), lres |-> "run"])
         /\ wg' = wg
    ELSE /\ wpc' = [wpc EXCEPT ![w] = pcNil]
         /\ wg' = IF pcNil = "done" THEN wg - 1 ELSE wg
         /\ UNCHANGED <<wcause, batches>>

\* ------------------------------------------------------------------ Init
\* The state when ETL.Run has created the bucket, started the extraction and
\* the feeder, and calls Bucket.Run; the stream has at most maxItems payloads.
\* The workers and the payloads of a run are together at most maxLoad.
BucketInit(maxItems, maxLoad) ==
    /\ \E bs \in 0 .. MaxBatch, wn \in 0 .. MaxWorkers :
          cfg = New([BatchSize |-> bs, Timeout |-> 0, WorkerNum |-> wn])
    /\ \E N \in 0 .. maxItems, e \in 0 .. maxItems :
          /\ e <= N
          /\ cfg.WorkerNum + N <= maxLoad
          /\ stream = Stream(N, e)
    /\ extractor = stream
    /\ ncloses = 0
    /\ fpc = "select"
    /\ fitem = 0
    /\ consumer = <<>>
    /\ closed = FALSE
    /\ ctxDone = FALSE
    /\ procCancel = FALSE
    /\ rpc = "spawn"
    /\ spawned = 0
    /\ wg = 0
    /\ errCh = <<>>
    /\ runErr = 0
    /\ wpc = [w \in Workers |-> "idle"]
    /\ queue = [w \in Workers |-> <<>>]
    /\ wcause = [w \in Workers |-> "none"]
    /\ tick = [w \in Workers |-> FALSE]
    /\ batches = <<>>
    /\ submitted = <<>>

\* -------------------------------------------------- feeder of ETL.Run
\* case <-ctx.Done(): b.Close(); return
FeederCtx ==
    /\ fpc = "select"
    /\ ctxDone
    /\ closed' = TRUE
    /\ ncloses' = ncloses + 1
    /\ fpc' = "done"
    /\ UNCHANGED <<cfg, extractor, fitem, consumer, ctxDone, procCancel, rpc,
                   spawned, wg, errCh, runErr, wpc, queue, wcause, tick,
                   batches, submitted, mvars, evars, stream>>

\* a feeder that closes the intake at the end of the stream and stays in its loop
FeederEnd_stay ==
    /\ fpc = "select"
    /\ extractor = <<>>
    /\ closed' = TRUE
    /\ ncloses' = ncloses + 1
    /\ UNCHANGED <<cfg, extractor, fpc, fitem, consumer, ctxDone, procCancel, rpc,
                   spawned, wg, errCh, runErr, wpc, queue, wcause, tick,
                   batches, submitted, mvars, evars, stream>>

\* case payload, ok := <-extractor with !ok: b.Close(); return
FeederEnd ==
    /\ fpc = "select"
    /\ extractor = <<>>
    /\ closed' = TRUE
    /\ ncloses' = ncloses + 1
    /\ fpc' = "done"
    /\ UNCHANGED <<cfg, extractor, fitem, consumer, ctxDone, procCancel, rpc,
                   spawned, wg, errCh, runErr, wpc, queue, wcause, tick,
                   batches, submitted, mvars, evars, stream>>

\* a feeder that prints the error and goes on with the stream
FeederErr_continue ==
    /\ fpc = "select"
    /\ extractor # <<>>
    /\ Head(extractor).Err
    /\ extractor' = Tail(extractor)
    /\ UNCHANGED <<cfg, fpc, fitem, consumer, closed, ctxDone, procCancel, rpc,
                   spawned, wg, errCh, runErr, wpc, queue, wcause, tick,
                   batches, submitted, stream, ncloses, evars, mvars>>

\* payload.Err != nil: print, b.Close(); return
FeederErr ==
    /\ fpc = "select"
    /\ extractor # <<>>
    /\ Head(extractor).Err
    /\ extractor' = Tail(extractor)
    /\ closed' = TRUE
    /\ ncloses' = ncloses + 1
    /\ fpc' = "done"
    /\ UNCHANGED <<cfg, fitem, consumer, ctxDone, procCancel, rpc,
                   spawned, wg, errCh, runErr, wpc, queue, wcause, tick,
                   batches, submitted, mvars, evars, stream>>

\* a payload without error is received; b.Consume(payload.Data) is called
FeederRecv ==
    /\ fpc = "select"
    /\ extractor # <<>>
    /\ ~Head(extractor).Err
    /\ fitem' = Head(extractor).Data
    /\ extractor' = Tail(extractor)
    /\ fpc' = "consume"
    /\ UNCHANGED <<cfg, consumer, closed, ctxDone, procCancel, rpc,
                   spawned, wg, errCh, runErr, wpc, queue, wcause, tick,
                   batches, submitted, mvars, evars, stream, ncloses>>

\* Bucket.Consume: b.consumer <- item completes when the channel has room
Consume ==
    /\ fpc = "consume"
    /\ Len(consumer) < ChanCap
    /\ consumer' = Append(consumer, fitem)
    /\ submitted' = Append(submitted, fitem)
    /\ fpc' = "select"
    /\ UNCHANGED <<cfg, extractor, fitem, closed, ctxDone, procCancel, rpc,
                   spawned, wg, errCh, runErr, wpc, queue, wcause, tick,
                   batches, mvars, evars, stream, ncloses>>

\* the caller of ETL.Run cancels the context
Cancel ==
    /\ ~ctxDone
    /\ ctxDone' = TRUE
    /\ UNCHANGED <<cfg, extractor, fpc, fitem, consumer, closed, procCancel, rpc,
                   spawned, wg, errCh, runErr, wpc, queue, wcause, tick,
                   batches, submitted, mvars, evars, stream, ncloses>>

\* ------------------------------------------------------------ Bucket.Run
\* one iteration of the loop that starts the workers: wg.Add(1); go func(i)
RunSpawn ==
    /\ epc = "bucket"
    /\ rpc = "spawn"
    /\ wg' = wg + 1
    /\ wpc' = [wpc EXCEPT ![spawned] = "select"]
    /\ spawned' = spawned + 1
    /\ rpc' = IF spawned + 1 < cfg.WorkerNum THEN "spawn" ELSE "wait"
    /\ UNCHANGED <<cfg, extractor, fpc, fitem, consumer, closed, ctxDone,
                   procCancel, errCh, runErr, queue, wcause, tick,
                   batches, submitted, mvars, evars, stream, ncloses>>

\* a wait that returns while one worker still runs
WaitDone_early == wg <= 1

\* wg.Wait() returns
WaitDone == wg = 0

\* the last error of errCh instead of the first
FirstErr_last(ch) == IF ch # <<>> THEN ch[Len(ch)] + 1 ELSE 0

\* for err := range errCh { return err }; return nil
FirstErr(ch) == IF ch # <<>> THEN Head(ch) + 1 ELSE 0

\* wg.Wait(); close(errCh); the first error or nil; deferred cancel()
RunReturn ==
    /\ rpc = "wait"
    /\ WaitDone
    /\ runErr' = FirstErr(errCh)
    /\ procCancel' = TRUE
    /\ rpc' = "returned"
    /\ UNCHANGED <<cfg, extractor, fpc, fitem, consumer, closed, ctxDone,
                   spawned, wg, errCh, wpc, queue, wcause, tick,
                   batches, submitted, mvars, evars, stream, ncloses>>

\* --------------------------------------------------------- Bucket.worker
\* the ticker of a running worker fires (its channel holds one tick)
Tick(w) ==
    /\ wpc[w] \in {"select", "handler"}
    /\ ~tick[w]
    /\ tick' = [tick EXCEPT ![w] = TRUE]
    /\ UNCHANGED <<cfg, extractor, fpc, fitem, consumer, closed, ctxDone,
                   procCancel, rpc, spawned, wg, errCh, runErr, wpc, queue,
                   wcause, batches, submitted, mvars, evars, stream, ncloses>>

\* a cancellation case that returns without flushing
WSelectCtx_noflush(w) ==
    /\ wpc[w] = "select"
    /\ ProcDone
    /\ wpc' = [wpc EXCEPT ![w] = "done"]
    /\ wg' = wg - 1
    /\ UNCHANGED <<cfg, extractor, fpc, fitem, consumer, closed, ctxDone,
                   procCancel, rpc, spawned, errCh, runErr, queue, tick, wcause,
                   batches, submitted, mvars, evars, stream, ncloses>>

\* case <-ctx.Done(): return flush()
WSelectCtx(w) ==
    /\ wpc[w] = "select"
    /\ ProcDone
    /\ Flush(w, "ctx", queue[w], "done")
    /\ UNCHANGED <<cfg, extractor, fpc, fitem, consumer, closed, ctxDone,
                   procCancel, rpc, spawned, errCh, runErr, queue, tick,
                   submitted, mvars, evars, stream, ncloses>>

\* a ticker case that does not flush
WSelectTick_noflush(w) ==
    /\ wpc[w] = "select"
    /\ tick[w]
    /\ tick' = [tick EXCEPT ![w] = FALSE]
    /\ UNCHANGED <<cfg, extractor, fpc, fitem, consumer, closed, ctxDone,
                   procCancel, rpc, spawned, wg, errCh, runErr, wpc, queue,
                   wcause, batches, submitted, mvars, evars, stream, ncloses>>

\* case <-ticker.C: flush the partial batch
WSelectTick(w) ==
    /\ wpc[w] = "select"
    /\ tick[w]
    /\ tick' = [tick EXCEPT ![w] = FALSE]
    /\ Flush(w, "tick", queue[w], "select")
    /\ UNCHANGED <<cfg, extractor, fpc, fitem, consumer, closed, ctxDone,
                   procCancel, rpc, spawned, errCh, runErr, queue,
                   submitted, mvars, evars, stream, ncloses>>

\* case item, ok := <-b.consumer with ok: append, flush when the batch is full
WSelectRecv(w) ==
    /\ wpc[w] = "select"
    /\ consumer # <<>>
    /\ consumer' = Tail(consumer)
    /\ queue' = [queue EXCEPT ![w] = Enqueue(queue[w], Head(consumer))]
    /\ IF BatchFull(queue'[w])
       THEN Flush(w, "size", queue'[w], "select")
       ELSE UNCHANGED <<wpc, wcause, batches, wg>>
    /\ UNCHANGED <<cfg, extractor, fpc, fitem, closed, ctxDone, procCancel,
                   rpc, spawned, errCh, runErr, tick, submitted, mvars, evars, stream, ncloses>>

\* case item, ok := <-b.consumer with !ok: return flush()
WSelectClosed(w) ==
    /\ wpc[w] = "select"
    /\ consumer = <<>>
    /\ closed
    /\ Flush(w, "closed", queue[w], "done")
    /\ UNCHANGED <<cfg, extractor, fpc, fitem, consumer, closed, ctxDone,
                   procCancel, rpc, spawned, errCh, runErr, queue, tick,
                   submitted, mvars, evars, stream, ncloses>>

\* a worker that goes on selecting after every flush
HandlerOk_loop(w) ==
    /\ wpc[w] = "handler"
    /\ batches' = [batches EXCEPT ![InFlight(w)].res = "ok", ![InFlight(w)].lres = "ok"]
    /\ queue' = [queue EXCEPT ![w] = ResetQueue(queue[w])]
    /\ wpc' = [wpc EXCEPT ![w] = "select"]
    /\ UNCHANGED <<cfg, extractor, fpc, fitem, consumer, closed, ctxDone,
                   procCancel, rpc, spawned, wg, errCh, runErr, wcause, tick,
                   submitted, mvars, evars, stream, ncloses>>

\* processFunc returns nil: the queue is reset and flush returns nil; the
\* worker returns (ctx.Done, closed channel) or goes on selecting
HandlerOk(w) ==
    /\ wpc[w] = "handler"
    /\ batches' = [batches EXCEPT ![InFlight(w)].res = "ok", ![InFlight(w)].lres = "ok"]
    /\ queue' = [queue EXCEPT ![w] = ResetQueue(queue[w])]
    /\ IF wcause[w] \in {"ctx", "closed"}
       THEN /\ wpc' = [wpc EXCEPT ![w] = "done"]
            /\ wg' = wg - 1
       ELSE /\ wpc' = [wpc EXCEPT ![w] = "select"]
            /\ wg' = wg
    /\ UNCHANGED <<cfg, extractor, fpc, fitem, consumer, closed, ctxDone,
                   procCancel, rpc, spawned, errCh, runErr, wcause, tick,
                   submitted, mvars, evars, stream, ncloses>>

\* a worker that keeps the failed batch and goes on selecting
HandlerFail_retry(w) ==
    /\ wpc[w] = "handler"
    /\ batches' = [batches EXCEPT ![InFlight(w)].res = "fail", ![InFlight(w)].lres = "fail"]
    /\ wpc' = [wpc EXCEPT ![w] = "select"]
    /\ UNCHANGED <<cfg, extractor, fpc, fitem, consumer, closed, ctxDone,
                   procCancel, rpc, spawned, wg, errCh, runErr, queue, wcause,
                   tick, submitted, mvars, evars, stream, ncloses>>

\* processFunc returns an error: flush and the worker return it at once,
\* before the queue is reset
HandlerFail(w) ==
    /\ wpc[w] = "handler"
    /\ batches' = [batches EXCEPT ![InFlight(w)].res = "fail", ![InFlight(w)].lres = "fail"]
    /\ wpc' = [wpc EXCEPT ![w] = "report"]
    /\ UNCHANGED <<cfg, extractor, fpc, fitem, consumer, closed, ctxDone,
                   procCancel, rpc, spawned, wg, errCh, runErr, queue, wcause,
                   tick, submitted, mvars, evars, stream, ncloses>>

\* an errCh without buffer: the default case is always taken
SendErr_drop(ch, w) == ch

\* select { case errCh <- err: default: }
SendErr(ch, w) == IF Len(ch) < cfg.WorkerNum THEN Append(ch, w) ELSE ch

\* a failed worker that reports without cancelling its siblings
WReport_nocancel(w) ==
    /\ wpc[w] = "report"
    /\ errCh' = SendErr(errCh, w)
    /\ wg' = wg - 1
    /\ wpc' = [wpc EXCEPT ![w] = "done"]
    /\ UNCHANGED <<cfg, extractor, fpc, fitem, consumer, closed, ctxDone, procCancel,
                   rpc, spawned, runErr, queue, wcause, tick, batches,
                   submitted, mvars, evars, stream, ncloses>>

\* the goroutine of a failed worker: report the error, cancel(), wg.Done()
WReport(w) ==
    /\ wpc[w] = "report"
    /\ errCh' = SendErr(errCh, w)
    /\ procCancel' = TRUE
    /\ wg' = wg - 1
    /\ wpc' = [wpc EXCEPT ![w] = "done"]
    /\ UNCHANGED <<cfg, extractor, fpc, fitem, consumer, closed, ctxDone,
                   rpc, spawned, runErr, queue, wcause, tick, batches,
                   submitted, mvars, evars, stream, ncloses>>

\* ---------------------------------------------------------------- ETL.Run
\* The state when ETL.Run is called: the configuration is as the caller
\* wrote it, nothing has run yet. The workers and the payloads of a run are
\* together at most maxLoad.
ETLInitOf(maxItems, maxLoad) ==
    /\ \E bs \in 0 .. MaxBatch, wn \in 0 .. MaxWorkers :
          cfg = [BatchSize |-> bs, Timeout |-> 0, WorkerNum |-> wn]
    /\ \E N \in 0 .. maxItems, e \in 0 .. maxItems :
          /\ e <= N
          /\ New(cfg).WorkerNum + N <= maxLoad
          /\ stream = Stream(N, e)
    /\ extractor = stream
    /\ ncloses = 0
    /\ fpc = "idle"
    /\ fitem = 0
    /\ consumer = <<>>
    /\ closed = FALSE
    /\ ctxDone = FALSE
    /\ procCancel = FALSE
    /\ rpc = "spawn"
    /\ spawned = 0
    /\ wg = 0
    /\ errCh = <<>>
    /\ runErr = 0
    /\ wpc = [w \in Workers |-> "idle"]
    /\ queue = [w \in Workers |-> <<>>]
    /\ wcause = [w \in Workers |-> "none"]
    /\ tick = [w \in Workers |-> FALSE]
    /\ batches = <<>>
    /\ submitted = <<>>
    /\ epc = "pre"
    /\ eret = "none"
    /\ calls = <<>>

ETLInit == ETLInitOf(EtlMaxItems, MaxLoad)

\* PreProcess returns nil
EPreOk ==
    /\ epc = "pre"
    /\ calls' = Append(calls, [op |-> "PreProcess", ok |-> TRUE])
    /\ epc' = "new"
    /\ UNCHANGED <<bvars, eret, mvars>>

\* a failure of PreProcess that does not end the run
EPreFail_continue ==
    /\ epc = "pre"
    /\ calls' = Append(calls, [op |-> "PreProcess", ok |-> FALSE])
    /\ epc' = "new"
    /\ UNCHANGED <<bvars, eret, mvars>>

\* PreProcess returns an error: return "failed to pre-process"
EPreFail ==
    /\ epc = "pre"
    /\ calls' = Append(calls, [op |-> "PreProcess", ok |-> FALSE])
    /\ eret' = "failed to pre-process"
    /\ epc' = "returned"
    /\ UNCHANGED <<bvars, mvars>>

\* b, err := bucket.New[E](bucketCfg): New writes the clamped values into
\* the caller's configuration and never returns an error
ENew ==
    /\ epc = "new"
    /\ cfg' = New(cfg)
    /\ epc' = "extract"
    /\ UNCHANGED <<extractor, fpc, fitem, consumer, closed, ctxDone, procCancel,
                   rpc, spawned, wg, errCh, runErr, wpc, queue, wcause, tick,
                   batches, submitted, stream, ncloses, eret, calls, mvars>>

\* Extract returns the channel; the feeder goroutine is started
EExtractOk ==
    /\ epc = "extract"
    /\ calls' = Append(calls, [op |-> "Extract", ok |-> TRUE])
    /\ fpc' = "select"
    /\ epc' = "bucket"
    /\ UNCHANGED <<cfg, extractor, fitem, consumer, closed, ctxDone, procCancel,
                   rpc, spawned, wg, errCh, runErr, wpc, queue, wcause, tick,
                   batches, submitted, stream, ncloses, eret, mvars>>

\* Extract returns an error: return "failed to extract"
EExtractFail ==
    /\ epc = "extract"
    /\ calls' = Append(calls, [op |-> "Extract", ok |-> FALSE])
    /\ eret' = "failed to extract"
    /\ epc' = "returned"
    /\ UNCHANGED <<bvars, mvars>>

\* a test that lets every result of b.Run through
RunFailed_never(err) == FALSE

\* err = b.Run(...); if err != nil
RunFailed(err) == err # 0

\* b.Run returned an error: return "failed to run ETL"
ERunFailed ==
    /\ epc = "bucket"
    /\ rpc = "returned"
    /\ RunFailed(runErr)
    /\ eret' = "failed to run ETL"
    /\ epc' = "returned"
    /\ UNCHANGED <<bvars, calls, mvars>>

\* b.Run returned nil, PostProcess returns nil: return nil
EPostOk ==
    /\ epc = "bucket"
    /\ rpc = "returned"
    /\ ~RunFailed(runErr)
    /\ calls' = Append(calls, [op |-> "PostProcess", ok |-> TRUE])
    /\ eret' = "nil"
    /\ epc' = "returned"
    /\ UNCHANGED <<bvars, mvars>>

\* a failure of PostProcess that is not returned
EPostFail_swallowed ==
    /\ epc = "bucket"
    /\ rpc = "returned"
    /\ ~RunFailed(runErr)
    /\ calls' = Append(calls, [op |-> "PostProcess", ok |-> FALSE])
    /\ eret' = "nil"
    /\ epc' = "returned"
    /\ UNCHANGED <<bvars, mvars>>

\* b.Run returned nil, PostProcess returns an error: return
\* "failed to post-process"
EPostFail ==
    /\ epc = "bucket"
    /\ rpc = "returned"
    /\ ~RunFailed(runErr)
    /\ calls' = Append(calls, [op |-> "PostProcess", ok |-> FALSE])
    /\ eret' = "failed to post-process"
    /\ epc' = "returned"
    /\ UNCHANGED <<bvars, mvars>>

\* ------------------------------------------------------------ the manager
\* the value of mret while RunAll has not returned
NotReturned == -2

\* a NewManager that clamps the negative values only
NewManager_strict(raw) ==
    [WorkerNum |-> IF raw.WorkerNum < 0 THEN DefaultManagerWorkerNum ELSE raw.WorkerNum]

\* NewManager clamps a non-positive WorkerNum
NewManager(raw) ==
    [WorkerNum |-> IF raw.WorkerNum <= 0 THEN DefaultManagerWorkerNum ELSE raw.WorkerNum]

\* a semaphore with one permit too many
SemCap_plus == mcfg.WorkerNum + 1

\* sem := make(chan struct{}, m.cfg.WorkerNum)
SemCap == mcfg.WorkerNum

\* a results channel one slot short
ResultsCap_short == npipes - 1

\* results := make(chan error, len(m.pipelines))
ResultsCap == npipes

ManagerInitOf(maxConc, maxPipes) ==
    /\ \E wn \in 0 .. maxConc : mcfg = NewManager([WorkerNum |-> wn])
    /\ npipes \in 0 .. maxPipes
    /\ mpc = "start"
    /\ launched = 0
    /\ sem = 0
    /\ results = <<>>
    /\ mwg = 0
    /\ ppc = [p \in Pipes |-> "none"]
    /\ mret = NotReturned
    /\ pstage = [p \in Pipes |-> "pre"]
    /\ pcalls = [p \in Pipes |-> <<>>]

ManagerInit == ManagerInitOf(MaxConc, MaxPipelines)

\* NewManager(cfg, bucketConfig): the clamped value is written into the
\* caller's configuration and copied into the Manager
MNewManager ==
    /\ mpc = "new"
    /\ mcfg' = NewManager(mcfg)
    /\ mpc' = "start"
    /\ UNCHANGED <<npipes, launched, sem, results, mwg, ppc, mret, pstage, pcalls, bvars, evars>>

\* fmt.Errorf("no pipelines registered")
ErrNoPipelines == -1

\* a RunAll without the test of len(m.pipelines): nothing is launched, the
\* wait ends at once and nil is returned
RunAllEmpty_nil ==
    /\ mpc = "start"
    /\ npipes = 0
    /\ mret' = 0
    /\ mpc' = "returned"
    /\ UNCHANGED <<mcfg, npipes, launched, sem, results, mwg, ppc, bvars, evars, pstage, pcalls>>

\* if len(m.pipelines) == 0 { return error }
RunAllEmpty ==
    /\ mpc = "start"
    /\ npipes = 0
    /\ mret' = ErrNoPipelines
    /\ mpc' = "returned"
    /\ UNCHANGED <<mcfg, npipes, launched, sem, results, mwg, ppc, bvars, evars, pstage, pcalls>>

\* one iteration of the launch loop: wg.Add(1); go func(p)
RunAllLaunch ==
    /\ mpc \in {"start", "launch"}
    /\ launched < npipes
    /\ mwg' = mwg + 1
    /\ launched' = launched + 1
    /\ ppc' = [ppc EXCEPT ![launched + 1] = "acquire"]
    /\ mpc' = IF launched + 1 < npipes THEN "launch" ELSE "wait"
    /\ UNCHANGED <<mcfg, npipes, sem, results, mret, bvars, evars, pstage, pcalls>>

\* sem <- struct{}{} completes when the channel has room
PAcquire(p) ==
    /\ ppc[p] = "acquire"
    /\ sem < SemCap
    /\ sem' = sem + 1
    /\ ppc' = [ppc EXCEPT ![p] = "run"]
    /\ UNCHANGED <<mcfg, npipes, mpc, launched, results, mwg, mret, bvars, evars, pstage, pcalls>>

\* pipelineAdapter.Run, with ETL.Run inside it, as the sequence of the calls
\* it makes: PreProcess, then in ETL.Run PreProcess, Extract, Bucket.Run (the
\* loads) and PostProcess, then PostProcess again.
StageCall(s) ==
    CASE s = "pre" -> "PreProcess"
      [] s = "etl.pre" -> "PreProcess"
      [] s = "etl.extract" -> "Extract"
      [] s = "etl.bucket" -> "Bucket.Run"
      [] s = "etl.post" -> "PostProcess"
      [] s = "post" -> "PostProcess"

\* a run that forgets the teardown
NextStage_noteardown(s) ==
    CASE s = "pre" -> "etl.pre"
      [] s = "etl.pre" -> "etl.extract"
      [] s = "etl.extract" -> "etl.bucket"
      [] s = "etl.bucket" -> "ok"
      [] s = "etl.post" -> "ok"
      [] s = "post" -> "ok"

\* the stage that follows a stage that returned nil
NextStage(s) ==
    CASE s = "pre" -> "etl.pre"
      [] s = "etl.pre" -> "etl.extract"
      [] s = "etl.extract" -> "etl.bucket"
      [] s = "etl.bucket" -> "etl.post"
      [] s = "etl.post" -> "post"
      [] s = "post" -> "ok"

\* the call of the current stage returns nil: the run goes on, or returns nil
\* after the last stage
PStageOk(p) ==
    /\ ppc[p] = "run"
    /\ pstage[p] \notin {"ok", "fail"}
    /\ pcalls' = [pcalls EXCEPT ![p] = Append(@, [op |-> StageCall(pstage[p]), ok |-> TRUE])]
    /\ pstage' = [pstage EXCEPT ![p] = NextStage(@)]
    /\ UNCHANGED <<mcfg, npipes, mpc, launched, sem, results, mwg, ppc, mret, bvars, evars>>

\* the call of the current stage returns an error (for Bucket.Run: a Load
\* failed): every stage returns the wrapped error at once
PStageFail(p) ==
    /\ ppc[p] = "run"
    /\ pstage[p] \notin {"ok", "fail"}
    /\ pcalls' = [pcalls EXCEPT ![p] = Append(@, [op |-> StageCall(pstage[p]), ok |-> FALSE])]
    /\ pstage' = [pstage EXCEPT ![p] = "fail"]
    /\ UNCHANGED <<mcfg, npipes, mpc, launched, sem, results, mwg, ppc, mret, bvars, evars>>

\* p.Run returns nil and nil is sent on results
PRunOk(p) ==
    /\ ppc[p] = "run"
    /\ pstage[p] = "ok"
    /\ Len(results) < ResultsCap
    /\ results' = Append(results, 0)
    /\ ppc' = [ppc EXCEPT ![p] = "release"]
    /\ UNCHANGED <<mcfg, npipes, mpc, launched, sem, mwg, mret, bvars, evars, pstage, pcalls>>

\* p.Run returns an error, which is wrapped with the name and sent on results
PRunFail(p) ==
    /\ ppc[p] = "run"
    /\ pstage[p] = "fail"
    /\ Len(results) < ResultsCap
    /\ results' = Append(results, p)
    /\ ppc' = [ppc EXCEPT ![p] = "release"]
    /\ UNCHANGED <<mcfg, npipes, mpc, launched, sem, mwg, mret, bvars, evars, pstage, pcalls>>

\* a pipeline that ends without giving its permit back
PRelease_leak(p) ==
    /\ ppc[p] = "release"
    /\ mwg' = mwg - 1
    /\ ppc' = [ppc EXCEPT ![p] = "done"]
    /\ UNCHANGED <<mcfg, npipes, mpc, launched, sem, results, mret, bvars, evars, pstage, pcalls>>

\* the deferred calls: <-sem, then wg.Done()
PRelease(p) ==
    /\ ppc[p] = "release"
    /\ sem' = sem - 1
    /\ mwg' = mwg - 1
    /\ ppc' = [ppc EXCEPT ![p] = "done"]
    /\ UNCHANGED <<mcfg, npipes, mpc, launched, results, mret, bvars, evars, pstage, pcalls>>

\* the last error of results instead of the first
FirstFailure_last(rs) ==
    LET bad == {i \in 1 .. Len(rs) : rs[i] # 0}
    IN IF bad = {} THEN 0 ELSE rs[CHOOSE i \in bad : \A j \in bad : j <= i]

\* for err := range results { if err != nil { return err } }; return nil
RECURSIVE FirstFailure(_)
FirstFailure(rs) ==
    IF rs = <<>> THEN 0
    ELSE IF Head(rs) # 0 THEN Head(rs) ELSE FirstFailure(Tail(rs))

\* a RunAll that returns at the first result
RunAllReturn_early ==
    /\ mpc = "wait"
    /\ results # <<>>
    /\ mret' = FirstFailure(results)
    /\ mpc' = "returned"
    /\ UNCHANGED <<mcfg, npipes, launched, sem, results, mwg, ppc, bvars, evars, pstage, pcalls>>

\* wg.Wait(); close(results); the first error or nil
RunAllReturn ==
    /\ mpc = "wait"
    /\ mwg = 0
    /\ mret' = FirstFailure(results)
    /\ mpc' = "returned"
    /\ UNCHANGED <<mcfg, npipes, launched, sem, results, mwg, ppc, bvars, evars, pstage, pcalls>>

\* ------------------------------------------------------- specifications
\* The manager part at rest while the bucket is examined, and conversely.
ManagerIdle ==
    /\ mcfg = NewManager([WorkerNum |-> 0])
    /\ npipes = 0
    /\ mpc = "start"
    /\ launched = 0
    /\ sem = 0
    /\ results = <<>>
    /\ mwg = 0
    /\ ppc = [p \in Pipes |-> "none"]
    /\ mret = NotReturned
    /\ pstage = [p \in Pipes |-> "pre"]
    /\ pcalls = [p \in Pipes |-> <<>>]

BucketIdle ==
    /\ cfg = New([BatchSize |-> 0, Timeout |-> 0, WorkerNum |-> 0])
    /\ extractor = <<>>
    /\ fpc = "select"
    /\ fitem = 0
    /\ consumer = <<>>
    /\ closed = FALSE
    /\ ctxDone = FALSE
    /\ procCancel = FALSE
    /\ rpc = "spawn"
    /\ spawned = 0
    /\ wg = 0
    /\ errCh = <<>>
    /\ runErr = 0
    /\ wpc = [w \in Workers |-> "idle"]
    /\ queue = [w \in Workers |-> <<>>]
    /\ wcause = [w \in Workers |-> "none"]
    /\ tick = [w \in Workers |-> FALSE]
    /\ batches = <<>>
    /\ submitted = <<>>
    /\ stream = <<>>
    /\ ncloses = 0
    /\ epc = "pre"
    /\ eret = "none"
    /\ calls = <<>>

\* ETL.Run has called PreProcess, bucket.New and Extract with success and
\* calls Bucket.Run
ETLAtBucket ==
    /\ epc = "bucket"
    /\ eret = "none"
    /\ calls = <<[op |-> "PreProcess", ok |-> TRUE], [op |-> "Extract", ok |-> TRUE]>>

Init == BucketInit(MaxItems, MaxLoad) /\ ETLAtBucket /\ ManagerIdle

LiveInit == BucketInit(LiveMaxItems, LiveMaxLoad) /\ ETLAtBucket /\ ManagerIdle

Next ==
    \/ FeederCtx
    \/ FeederEnd
    \/ FeederErr
    \/ FeederRecv
    \/ Consume
    \/ Cancel
    \/ RunSpawn
    \/ RunReturn
    \/ \E w \in Workers : Tick(w)
    \/ \E w \in Workers : WSelectCtx(w)
    \/ \E w \in Workers : WSelectTick(w)
    \/ \E w \in Workers : WSelectRecv(w)
    \/ \E w \in Workers : WSelectClosed(w)
    \/ \E w \in Workers : HandlerOk(w)
    \/ \E w \in Workers : HandlerFail(w)
    \/ \E w \in Workers : WReport(w)

Spec == Init /\ [][Next]_vars

\* ETL.Run from its call to its return, with the bucket it creates
EInit == ETLInit /\ ManagerIdle

ENext ==
    \/ EPreOk
    \/ EPreFail
    \/ ENew
    \/ EExtractOk
    \/ EExtractFail
    \/ ERunFailed
    \/ EPostOk
    \/ EPostFail
    \/ Next

ETLSpec == EInit /\ [][ENext]_vars

MInit == ManagerInit /\ BucketIdle

MNext ==
    \/ RunAllEmpty
    \/ RunAllLaunch
    \/ \E p \in Pipes : PAcquire(p)
    \/ \E p \in Pipes : PStageOk(p)
    \/ \E p \in Pipes : PStageFail(p)
    \/ \E p \in Pipes : PRunOk(p)
    \/ \E p \in Pipes : PRunFail(p)
    \/ \E p \in Pipes : PRelease(p)
    \/ RunAllReturn

ManagerSpec == MInit /\ [][MNext]_vars

\* The two constructors alone, on configurations as a caller may write them:
\* every field from -MaxRaw to MaxRaw.
RawValues == (0 - MaxRaw) .. MaxRaw

ConfigInit ==
    /\ cfg \in [BatchSize : RawValues, Timeout : RawValues, WorkerNum : RawValues]
    /\ mcfg \in [WorkerNum : RawValues]
    /\ extractor = <<>>
    /\ stream = <<>>
    /\ ncloses = 0
    /\ fpc = "idle"
    /\ fitem = 0
    /\ consumer = <<>>
    /\ closed = FALSE
    /\ ctxDone = FALSE
    /\ procCancel = FALSE
    /\ rpc = "spawn"
    /\ spawned = 0
    /\ wg = 0
    /\ errCh = <<>>
    /\ runErr = 0
    /\ wpc = [w \in Workers |-> "idle"]
    /\ queue = [w \in Workers |-> <<>>]
    /\ wcause = [w \in Workers |-> "none"]
    /\ tick = [w \in Workers |-> FALSE]
    /\ batches = <<>>
    /\ submitted = <<>>
    /\ epc = "new"
    /\ eret = "none"
    /\ calls = <<[op |-> "PreProcess", ok |-> TRUE]>>
    /\ npipes = 0
    /\ mpc = "new"
    /\ launched = 0
    /\ sem = 0
    /\ results = <<>>
    /\ mwg = 0
    /\ ppc = [p \in Pipes |-> "none"]
    /\ mret = NotReturned
    /\ pstage = [p \in Pipes |-> "pre"]
    /\ pcalls = [p \in Pipes |-> <<>>]

ConfigNext ==
    \/ ENew
    \/ MNewManager

ConfigSpec == ConfigInit /\ [][ConfigNext]_vars

\* Bucket.Run under the scheduling the runtime provides: every ticker keeps
\* firing, and a select whose ticker case stays ready eventually takes it.
\* The feeder and the extraction stream may stall for ever.
LiveSpec ==
    /\ LiveInit
    /\ [][Next]_vars
    /\ \A w \in Workers : WF_vars(Tick(w)) /\ WF_vars(WSelectTick(w))

\* Bucket.Run and the feeder under a fair scheduler: every goroutine that can
\* take a step eventually takes one, a select whose cancellation case stays
\* ready eventually takes it, a channel send completes when there is room,
\* and every handler call returns. The extraction stream may stall for ever
\* and the tickers may or may not fire.
FairSpec ==
    /\ LiveInit
    /\ [][Next]_vars
    /\ WF_vars(FeederCtx)
    /\ WF_vars(Consume)
    /\ WF_vars(RunSpawn)
    /\ WF_vars(RunReturn)
    /\ \A w \in Workers :
          /\ WF_vars(WSelectCtx(w))
          /\ WF_vars(HandlerOk(w) \/ HandlerFail(w))
          /\ WF_vars(WReport(w))

\* RunAll with the ETL.Run of pipeline 1 in full (its feeder, its bucket and
\* its workers) and the other pipelines as the sequence of their stages; the
\* context of Cancel is the one RunAll hands to every pipeline. The
\* pipelines, the workers and the payloads are together at most ShutMaxLoad,
\* and the manager has one permit, for which the pipelines queue.
ShutdownInit ==
    /\ \E n \in 1 .. ShutMaxLoad : npipes = n /\ ETLInitOf(ShutMaxLoad, ShutMaxLoad - n)
    /\ mcfg = NewManager([WorkerNum |-> 1])
    /\ mpc = "start"
    /\ launched = 0
    /\ sem = 0
    /\ results = <<>>
    /\ mwg = 0
    /\ ppc = [p \in Pipes |-> "none"]
    /\ mret = NotReturned
    /\ pstage = [p \in Pipes |-> "pre"]
    /\ pcalls = [p \in Pipes |-> <<>>]

\* pipelineAdapter.Run of pipeline 1 calls a.etl.PreProcess or
\* a.etl.PostProcess; for the other pipelines every stage is such a call
PStage(p) ==
    /\ p = 1 => pstage[p] \in {"pre", "post"}
    /\ PStageOk(p) \/ PStageFail(p)

\* a.etl.Run(ctx, cfg) of pipeline 1 begins: ETL.Run calls PreProcess
PEtlPre ==
    /\ ppc[1] = "run"
    /\ pstage[1] = "etl.pre"
    /\ EPreOk \/ EPreFail

\* a.etl.Run of pipeline 1 has returned: on an error the adapter returns
\* "ETL run failed", otherwise it goes on to a.etl.PostProcess
PEtlReturn ==
    /\ ppc[1] = "run"
    /\ pstage[1] = "etl.pre"
    /\ epc = "returned"
    /\ pstage' = [pstage EXCEPT ![1] = IF eret = "nil" THEN "post" ELSE "fail"]
    /\ pcalls' = [pcalls EXCEPT ![1] = @ \o calls]
    /\ UNCHANGED <<mcfg, npipes, mpc, launched, sem, results, mwg, ppc, mret, bvars, evars>>

ShutdownNext ==
    \/ RunAllLaunch
    \/ \E p \in Pipes : PAcquire(p)
    \/ \E p \in Pipes : PStage(p)
    \/ PEtlPre
    \/ ENew
    \/ EExtractOk
    \/ EExtractFail
    \/ ERunFailed
    \/ EPostOk
    \/ EPostFail
    \/ Next
    \/ PEtlReturn
    \/ \E p \in Pipes : PRunOk(p)
    \/ \E p \in Pipes : PRunFail(p)
    \/ \E p \in Pipes : PRelease(p)
    \/ RunAllReturn

\* Every goroutine that can take a step eventually takes one and every call
\* on a processor returns; the extraction stream may stall for ever.
ShutdownSpec ==
    /\ ShutdownInit
    /\ [][ShutdownNext]_vars
    /\ WF_vars(RunAllLaunch)
    /\ WF_vars(RunAllReturn)
    /\ \A p \in Pipes :
          /\ WF_vars(PAcquire(p))
          /\ WF_vars(PStage(p))
          /\ WF_vars(PRunOk(p) \/ PRunFail(p))
          /\ WF_vars(PRelease(p))
    /\ WF_vars(PEtlPre)
    /\ WF_vars(ENew)
    /\ WF_vars(EExtractOk \/ EExtractFail)
    /\ WF_vars(ERunFailed)
    /\ WF_vars(EPostOk \/ EPostFail)
    /\ WF_vars(PEtlReturn)
    /\ WF_vars(FeederCtx)
    /\ WF_vars(Consume)
    /\ WF_vars(RunSpawn)
    /\ WF_vars(RunReturn)
    /\ \A w \in Workers :
          /\ WF_vars(WSelectCtx(w))
          /\ WF_vars(HandlerOk(w) \/ HandlerFail(w))
          /\ WF_vars(WReport(w))

\* RunAll under a fair scheduler: every goroutine that can take a step
\* eventually takes one, a send on sem completes when there is room, and
\* every call of a pipeline's Run returns (each of its stages does).
FairManagerInit == ManagerInitOf(FairMaxConc, FairMaxPipelines) /\ BucketIdle

FairManagerSpec ==
    /\ FairManagerInit
    /\ [][MNext]_vars
    /\ WF_vars(RunAllEmpty)
    /\ WF_vars(RunAllLaunch)
    /\ WF_vars(RunAllReturn)
    /\ \A p \in Pipes :
          /\ WF_vars(PAcquire(p))
          /\ WF_vars(PStageOk(p) \/ PStageFail(p))
          /\ WF_vars(PRunOk(p) \/ PRunFail(p))
          /\ WF_vars(PRelease(p))

\* RunAll with as many permits as pipelines, so that every pipeline can hold
\* a permit at once while the results are recorded
PermitInit == ManagerInitOf(PermitMaxConc, PermitMaxPipelines) /\ BucketIdle

PermitSpec == PermitInit /\ [][MNext]_vars

\* Bucket.Run and the feeder under a fair scheduler, with an extraction
\* stream that delivers every payload and then ends: every step of the
\* program that stays possible is eventually taken; only the cancellation of
\* the context is left to the caller.
StreamFairSpec ==
    /\ Init
    /\ [][Next]_vars
    /\ WF_vars(FeederCtx)
    /\ WF_vars(FeederEnd)
    /\ WF_vars(FeederErr)
    /\ WF_vars(FeederRecv)
    /\ WF_vars(Consume)
    /\ WF_vars(RunSpawn)
    /\ WF_vars(RunReturn)
    /\ \A w \in Workers :
          /\ WF_vars(Tick(w))
          /\ WF_vars(WSelectCtx(w))
          /\ WF_vars(WSelectTick(w))
          /\ WF_vars(WSelectRecv(w))
          /\ WF_vars(WSelectClosed(w))
          /\ WF_vars(HandlerOk(w) \/ HandlerFail(w))
          /\ WF_vars(WReport(w))

\* ---------------------------------------------------- auxiliary notions
RECURSIVE Concat(_)
Concat(bs) == IF bs = <<>> THEN <<>> ELSE Head(bs).items \o Concat(Tail(bs))

Count(x, s) == Cardinality({i \in 1 .. Len(s) : s[i] = x})

NoFail == \A i \in 1 .. Len(batches) : batches[i].res # "fail"

SomeFail == \E i \in 1 .. Len(batches) : batches[i].res = "fail"

CeilDiv(n, b) == (n + b - 1) \div b

SameMultiset(s, t) ==
    \A x \in 1 .. (Len(s) + Len(t) + MaxItems) : Count(x, s) = Count(x, t)

\* the batch sizes the chunking of N items into batches of B gives
Chunked(N, B) ==
    /\ Len(batches) = CeilDiv(N, B)
    /\ \A i \in 1 .. Len(batches) - 1 : Len(batches[i].items) = B
    /\ N > 0 => Len(batches[Len(batches)].items) = (IF N % B = 0 THEN B ELSE N % B)

\* ----------------------------------------------------------------- claims
\* C1 (as stated): in a Run that completes with no handler failure after the
\* intake was closed, the batches hold exactly the submitted items, each once.
C1_Original ==
    (rpc = "returned" /\ NoFail /\ closed) => SameMultiset(Concat(batches), submitted)

\* C1 (amended): in a Run that completes with no handler failure and whose
\* context is not cancelled, the multiset of the items of all batches equals
\* the multiset of the items passed to Consume.
C1_NoLossNoDup ==
    (rpc = "returned" /\ NoFail /\ ~ctxDone) =>
        (closed /\ SameMultiset(Concat(batches), submitted))

C1_Witness ==
    /\ rpc = "returned" /\ NoFail /\ ~ctxDone
    /\ cfg.WorkerNum = 2
    /\ Len(submitted) = 2
    /\ \A w \in 0 .. 1 : \E i \in 1 .. Len(batches) : batches[i].w = w

\* C2 (as stated): with one worker, N items submitted, the intake closed and
\* no handler failure, the concatenation of the batches is the submitted
\* sequence.
C2_Original ==
    (cfg.WorkerNum = 1 /\ rpc = "returned" /\ NoFail /\ closed) =>
        Concat(batches) = submitted

\* C2 (amended): with one worker, no handler failure and a context that is
\* not cancelled, the concatenation of the batches in the order the handler
\* received them is the submitted sequence.
C2_ConcatIsSubmitted ==
    (cfg.WorkerNum = 1 /\ rpc = "returned" /\ NoFail /\ ~ctxDone) =>
        Concat(batches) = submitted

C2_Witness ==
    /\ cfg.WorkerNum = 1 /\ rpc = "returned" /\ NoFail /\ ~ctxDone
    /\ Len(submitted) = MaxItems
    /\ Len(batches) >= 2

\* C3 (as stated, taken for the runs whose context is not cancelled): with one
\* worker and batch size B, N items submitted, the intake closed and no
\* handler failure, there are ceil(N/B) batches, all of size B but the last,
\* which has the remainder.
C3_Original ==
    (cfg.WorkerNum = 1 /\ rpc = "returned" /\ NoFail /\ closed /\ ~ctxDone) =>
        Chunked(Len(submitted), cfg.BatchSize)

\* C3 (amended): the same, provided the context is not cancelled and no batch
\* other than the last one was flushed by the timer.
C3_ChunkSizes ==
    (/\ cfg.WorkerNum = 1 /\ rpc = "returned" /\ NoFail /\ ~ctxDone
     /\ \A i \in 1 .. Len(batches) - 1 : batches[i].cause # "tick") =>
        Chunked(Len(submitted), cfg.BatchSize)

C3_Witness ==
    /\ cfg.WorkerNum = 1 /\ rpc = "returned" /\ NoFail /\ ~ctxDone
    /\ \A i \in 1 .. Len(batches) - 1 : batches[i].cause # "tick"
    /\ cfg.BatchSize = 2
    /\ Len(submitted) = 3
    /\ Len(batches) = 2

\* C4: every batch passed to the handler has between 1 and maxBatchSize
\* items, whatever worker passed it and whatever triggered the flush.
C4_BatchBounds ==
    \A i \in 1 .. Len(batches) :
        Len(batches[i].items) >= 1 /\ Len(batches[i].items) <= cfg.BatchSize

C4_Witness ==
    /\ \E i \in 1 .. Len(batches) :
          batches[i].cause = "size" /\ Len(batches[i].items) = cfg.BatchSize
    /\ \E i \in 1 .. Len(batches) :
          batches[i].cause \in {"tick", "ctx", "closed"} /\ Len(batches[i].items) < cfg.BatchSize
    /\ \E w \in Workers : wpc[w] = "select" /\ queue[w] = <<>> /\ tick[w]

\* C5: Run returns an error exactly when some handler invocation failed.
C5_ErrorIffFailure ==
    rpc = "returned" => ((runErr # 0) <=> SomeFail)

C5_Witness ==
    /\ rpc = "returned" /\ runErr # 0 /\ SomeFail
    /\ \E i \in 1 .. Len(batches) : batches[i].res = "ok"

\* C6: when several workers fail, Run returns one error, that of the worker
\* that reported first; the later reports do not change it.
C6_FirstReportWins ==
    (rpc = "returned" /\ Len(errCh) >= 2) =>
        /\ runErr = errCh[1] + 1
        /\ \E i \in 1 .. Len(batches) : batches[i].w = errCh[1] /\ batches[i].res = "fail"

C6_Witness ==
    /\ rpc = "returned" /\ Len(errCh) = 2
    /\ \E i, j \in 1 .. Len(batches) :
          /\ i < j /\ batches[i].res = "fail" /\ batches[j].res = "fail"
          /\ batches[j].w = errCh[1]

\* C7: Run starts exactly workerCount workers and has returned only when all
\* of them have terminated; after it returned no handler invocation begins.
C7_ReturnsAfterWorkers ==
    /\ [](rpc = "returned" =>
            \A w \in Workers :
                IF w < cfg.WorkerNum THEN wpc[w] = "done" ELSE wpc[w] = "idle")
    /\ [][rpc = "returned" => batches' = batches]_vars

C7_Witness ==
    /\ rpc = "returned"
    /\ cfg.WorkerNum = 2
    /\ \A w \in 0 .. 1 : wpc[w] = "done" /\ \E i \in 1 .. Len(batches) : batches[i].w = w

\* C8: a worker waiting with a non-empty buffer eventually passes it to the
\* handler, even if no item arrives any more and the intake is never closed.
C8_PartialBatchFlushed ==
    \A w \in Workers :
        (wpc[w] = "select" /\ queue[w] # <<>>) ~>
            (wpc[w] = "handler" /\ batches[InFlight(w)].items = queue[w])

C8_Witness ==
    \E w \in Workers :
        /\ wpc[w] = "handler" /\ wcause[w] = "tick"
        /\ Len(queue[w]) < cfg.BatchSize
        /\ ~closed /\ ~ProcDone

\* C9: the intake never holds more than maxBatchSize items, and no Consume
\* completes while it holds maxBatchSize items.
C9_BoundedIntake ==
    /\ [](Len(consumer) <= cfg.BatchSize)
    /\ [][Len(consumer) = cfg.BatchSize => submitted' = submitted]_vars

C9_Witness ==
    /\ Len(consumer) = cfg.BatchSize
    /\ fpc = "consume"

\* C10: the number of pipelines that hold a permit is at most
\* maxConcurrentPipelines.
C10_AtMostCActive ==
    Cardinality({p \in Pipes : ppc[p] \in {"run", "release"}}) <= mcfg.WorkerNum

C10_Witness ==
    /\ Cardinality({p \in Pipes : ppc[p] \in {"run", "release"}}) = mcfg.WorkerNum
    /\ \E p \in Pipes : ppc[p] = "acquire"
    /\ mpc = "wait"

Registered == 1 .. npipes

PFailed(p) == \E i \in 1 .. Len(pcalls[p]) : ~pcalls[p][i].ok

\* the Bucket.Run of pipeline p returned an error: one of its loads failed
LoadFailed(p) ==
    \E i \in 1 .. Len(pcalls[p]) : pcalls[p][i].op = "Bucket.Run" /\ ~pcalls[p][i].ok

PTeardown(p) ==
    \E i \in 1 .. Len(pcalls[p]) : pcalls[p][i].op = "PostProcess" /\ pcalls[p][i].ok

\* the value RunAll returned is the first error in the order of recording
FirstRecorded ==
    \E i \in 1 .. Len(results) :
        /\ results[i] = mret
        /\ \A j \in 1 .. i - 1 : results[j] = 0

\* C11: RunAll on a manager without pipelines returns the error "no
\* pipelines registered", launches no task and acquires no permit.
C11_NoPipelinesIsError ==
    npipes = 0 =>
        /\ launched = 0 /\ mwg = 0 /\ sem = 0 /\ results = <<>>
        /\ \A p \in Pipes : ppc[p] = "none" /\ pcalls[p] = <<>>
        /\ mpc \in {"start", "returned"}
        /\ mpc = "returned" => mret = ErrNoPipelines

C11_Witness == npipes = 0 /\ mpc = "returned" /\ mret = ErrNoPipelines

\* C12: when RunAll has returned, every registered pipeline has run and its
\* Run has returned, whether or not other pipelines failed.
C12_AllPipelinesComplete ==
    (mpc = "returned" /\ npipes > 0) =>
        /\ Len(results) = npipes
        /\ \A p \in Registered :
              /\ ppc[p] = "done"
              /\ pstage[p] \in {"ok", "fail"}
              /\ pcalls[p] # <<>>

C12_Witness ==
    /\ mpc = "returned" /\ npipes = MaxPipelines
    /\ results[1] # 0
    /\ \E p \in Registered : pstage[p] = "ok" /\ Len(pcalls[p]) = 6
    /\ \E p \in Registered : pstage[p] = "fail" /\ Len(pcalls[p]) = 1

\* C13 (as stated): RunAll returns an error exactly when the Run of some
\* pipeline returned an error, and it is the error recorded first.
C13_Original ==
    mpc = "returned" =>
        /\ (mret # 0) <=> (\E p \in Registered : PFailed(p))
        /\ mret # 0 => FirstRecorded /\ PFailed(mret)

\* C13 (amended): with at least one registered pipeline, RunAll returns an
\* error exactly when the Run of some pipeline returned an error; the error is
\* the one recorded first and names its pipeline; otherwise RunAll returns nil.
C13_ErrorIffPipelineFailed ==
    (mpc = "returned" /\ npipes > 0) =>
        /\ (mret # 0) <=> (\E p \in Registered : PFailed(p))
        /\ mret # 0 => FirstRecorded /\ mret \in Registered /\ PFailed(mret)

C13_Witness ==
    /\ mpc = "returned" /\ npipes = MaxPipelines
    /\ mret # 0
    /\ results[1] = 0
    /\ Cardinality({p \in Registered : PFailed(p)}) = 2

\* C14: when the load of one pipeline fails and every stage of the others
\* succeeds, the PostProcess of every other pipeline is executed and the
\* error RunAll returns names the failing pipeline.
C14_OthersStillTearDown ==
    \A b \in Registered :
        (/\ mpc = "returned"
         /\ LoadFailed(b)
         /\ \A q \in Registered \ {b} : ~PFailed(q)) =>
            /\ mret = b
            /\ \A q \in Registered \ {b} : PTeardown(q)

C14_Witness ==
    /\ mpc = "returned" /\ npipes = MaxPipelines
    /\ LoadFailed(2)
    /\ \A q \in Registered \ {2} : ~PFailed(q) /\ PTeardown(q)
    /\ results[1] = 2

\* the number of payloads the feeder has received from the extraction stream
Received == Len(stream) - Len(extractor)

\* the feeder has received the failure result of the stream
ErrSeen == Received > 0 /\ stream[Received].Err

Called(op, ok) == \E i \in 1 .. Len(calls) : calls[i].op = op /\ calls[i].ok = ok

PostCalled == \E i \in 1 .. Len(calls) : calls[i].op = "PostProcess"

\* C15: if PreProcess fails, Run returns an error and calls neither Extract,
\* Transform, Load nor PostProcess.
C15_SetupFailureAborts ==
    Called("PreProcess", FALSE) =>
        /\ epc = "returned"
        /\ eret = "failed to pre-process"
        /\ Len(calls) = 1
        /\ batches = <<>>
        /\ fpc = "idle"
        /\ rpc = "spawn"

C15_Witness ==
    /\ Called("PreProcess", FALSE)
    /\ epc = "returned"
    /\ stream # <<>>
    /\ ctxDone

\* C16: if the feeder receives a failure result from the extraction stream,
\* Run returns a non-nil error (taken for the runs with no cancellation and
\* no failing Load, where nothing else could explain the result).
C16_ExtractionFailureReported ==
    (epc = "returned" /\ ErrSeen /\ ~ctxDone /\ NoFail) => eret # "nil"

\* C17: once the feeder has received the failure result, the items before it
\* in the stream, and no others, have been submitted, in stream order, and
\* Close has been called exactly once.
C17_FeederStopsAtFailure ==
    ErrSeen =>
        /\ fpc = "done"
        /\ closed
        /\ ncloses = 1
        /\ submitted = [k \in 1 .. Received - 1 |-> stream[k].Data]

C17_Witness ==
    /\ ErrSeen
    /\ Len(submitted) >= 1
    /\ extractor # <<>>
    /\ rpc = "returned"
    /\ Len(batches) >= 1

\* C18: for every batch given to the handler, Load is called with the
\* transforms of the items of the batch, in the same order, and the result of
\* the handler is the result of Load.
C18_TransformThenLoad ==
    \A i \in 1 .. Len(batches) :
        /\ Len(batches[i].loaded) = Len(batches[i].items)
        /\ \A k \in 1 .. Len(batches[i].items) :
              batches[i].loaded[k] = Transform(batches[i].items[k])
        /\ batches[i].res = batches[i].lres

C18_Witness ==
    /\ \E i \in 1 .. Len(batches) : Len(batches[i].items) = 2 /\ batches[i].res = "ok"
    /\ \E i \in 1 .. Len(batches) : batches[i].res = "fail"

\* C19: PostProcess is called only when Bucket.Run has returned and every
\* Load has returned with success; when PreProcess, Extract and every Load
\* succeeded, Run calls PostProcess before it returns, and returns an error
\* if PostProcess failed.
C19_TeardownAfterLoads ==
    /\ PostCalled =>
          /\ rpc = "returned"
          /\ \A i \in 1 .. Len(batches) : batches[i].lres = "ok"
    /\ (/\ epc = "returned" /\ NoFail
        /\ Called("PreProcess", TRUE) /\ Called("Extract", TRUE)) =>
          /\ calls[Len(calls)].op = "PostProcess"
          /\ ~calls[Len(calls)].ok => eret = "failed to post-process"
          /\ calls[Len(calls)].ok => eret = "nil"

C19_Witness ==
    /\ epc = "returned"
    /\ Called("PostProcess", FALSE)
    /\ eret = "failed to post-process"
    /\ Len(batches) >= 2

\* C20: if a Load call has failed, PostProcess is not called, and Run returns
\* an error.
C20_LoadFailureSkipsTeardown ==
    SomeFail =>
        /\ ~PostCalled
        /\ epc = "returned" => eret = "failed to run ETL"

C20_Witness ==
    /\ SomeFail
    /\ epc = "returned"
    /\ \E i \in 1 .. Len(batches) : batches[i].res = "ok"

\* C24: bucket.New replaces each non-positive field of the configuration by
\* its default (BatchSize 100, Timeout 5 seconds, WorkerNum 1) and keeps each
\* positive field; after New there is at least one worker and the intake has
\* a capacity of at least 1.
C24_NewClampsConfig ==
    /\ [][(epc = "new" /\ epc' = "extract") =>
            /\ cfg'.BatchSize = (IF cfg.BatchSize >= 1 THEN cfg.BatchSize ELSE 100)
            /\ cfg'.Timeout = (IF cfg.Timeout >= 1 THEN cfg.Timeout ELSE 5)
            /\ cfg'.WorkerNum = (IF cfg.WorkerNum >= 1 THEN cfg.WorkerNum ELSE 1)]_vars
    /\ [](epc = "extract" => cfg.WorkerNum >= 1 /\ ChanCap >= 1 /\ cfg.Timeout >= 1)

C24_Witness ==
    /\ epc = "extract"
    /\ cfg.BatchSize = 100 /\ cfg.Timeout = 1 /\ cfg.WorkerNum = MaxRaw

\* C25: NewManager replaces a non-positive WorkerNum by 4 and keeps a
\* positive one; after it the admission permit has a capacity of at least 1.
C25_NewManagerClamps ==
    /\ [][(mpc = "new" /\ mpc' = "start") =>
            mcfg'.WorkerNum = (IF mcfg.WorkerNum >= 1 THEN mcfg.WorkerNum ELSE 4)]_vars
    /\ [](mpc = "start" => SemCap >= 1)

C25_Witness ==
    /\ mpc = "start" /\ mcfg.WorkerNum = 4
    /\ epc = "extract" /\ cfg.WorkerNum = 1

\* the workers whose error is in errCh
Reported == {errCh[k] : k \in 1 .. Len(errCh)}

\* batch i is the last one its worker has passed to the handler
LastOfWorker(i) == \A j \in (i + 1) .. Len(batches) : batches[j].w # batches[i].w

\* C21 (as stated): after an external cancellation, a worker that takes the
\* cancellation case of its select calls the handler no more.
C21_Original ==
    (ctxDone /\ ~procCancel) =>
        \A i \in 1 .. Len(batches) : batches[i].cause # "ctx"

\* C21 (amended): a worker that takes the cancellation case calls the handler
\* at most once more, on its non-empty buffer (not at all when the buffer is
\* empty), and terminates when that call returns; a terminated worker calls
\* the handler no more.
C21_StopsAfterFinalFlush ==
    /\ [](\A i \in 1 .. Len(batches) :
            batches[i].cause = "ctx" =>
                /\ batches[i].items # <<>>
                /\ LastOfWorker(i)
                /\ wpc[batches[i].w] \in {"handler", "report", "done"}
                /\ (wpc[batches[i].w] = "handler") <=> (batches[i].res = "run"))
    /\ [][\A w \in Workers :
            /\ (wpc[w] = "select" /\ queue[w] = <<>> /\ wpc'[w] = "done") =>
                   batches' = batches
            /\ wpc[w] = "done" =>
                   /\ wpc'[w] = "done"
                   /\ Len(batches') = Len(batches) \/ batches'[Len(batches')].w # w]_vars

C21_Witness ==
    /\ ctxDone /\ ~procCancel
    /\ \E i \in 1 .. Len(batches) :
          /\ batches[i].cause = "ctx" /\ batches[i].res = "ok"
          /\ wpc[batches[i].w] = "done"
    /\ \E w \in Workers : wpc[w] = "done" /\ \A i \in 1 .. Len(batches) : batches[i].w # w

\* C26: once a failed handler call has cancelled the run, no worker takes an
\* item from the intake any more.
C26_NoDequeueAfterFailure ==
    [][(procCancel /\ rpc # "returned") => Len(consumer') >= Len(consumer)]_vars

\* C28: a worker never terminates from its select with items in its buffer:
\* when it takes the cancellation case with a non-empty buffer it passes the
\* whole buffer to the handler, and it reports an error exactly when that
\* call failed.
C28_FinalFlushOnCancel ==
    /\ [][\A w \in Workers :
            /\ (wpc[w] = "select" /\ wpc'[w] = "done") => queue[w] = <<>>
            /\ (wpc[w] = "select" /\ wpc'[w] = "handler" /\ wcause'[w] = "ctx") =>
                   /\ ProcDone
                   /\ Len(batches') = Len(batches) + 1
                   /\ batches'[Len(batches')].w = w
                   /\ batches'[Len(batches')].items = queue[w]]_vars
    /\ [](\A i \in 1 .. Len(batches) :
            (batches[i].cause = "ctx" /\ wpc[batches[i].w] = "done") =>
                ((batches[i].res = "fail") <=> (batches[i].w \in Reported)))

C28_Witness ==
    /\ \E i \in 1 .. Len(batches) :
          /\ batches[i].cause = "ctx" /\ batches[i].res = "fail"
          /\ wpc[batches[i].w] = "done" /\ batches[i].w \in Reported
          /\ Len(batches[i].items) < cfg.BatchSize
    /\ \E i \in 1 .. Len(batches) :
          /\ batches[i].cause = "ctx" /\ batches[i].res = "ok"
          /\ wpc[batches[i].w] = "done"

\* C29: a batch on which the handler failed is the last one of its worker
\* and shares no item with any other batch; the worker reports and
\* terminates, and its buffer stays as the failed call left it.
C29_NoRetry ==
    \A i \in 1 .. Len(batches) :
        batches[i].res = "fail" =>
            /\ LastOfWorker(i)
            /\ wpc[batches[i].w] \in {"report", "done"}
            /\ queue[batches[i].w] = batches[i].items
            /\ \A j \in 1 .. Len(batches) :
                  j # i => \A x \in 1 .. Len(batches[i].items), y \in 1 .. Len(batches[j].items) :
                              batches[i].items[x] # batches[j].items[y]

C29_Witness ==
    /\ rpc = "returned"
    /\ \E i, j \in 1 .. Len(batches) :
          /\ i < j
          /\ batches[i].res = "fail" /\ batches[j].res = "ok"
          /\ Len(batches[i].items) = 1

\* C30 (as stated): when a handler call returns, with success or with
\* failure, the buffer of its worker is empty.
C30_Original ==
    [][\A w \in Workers :
        (wpc[w] = "handler" /\ wpc'[w] # "handler") => queue'[w] = <<>>]_vars

\* C30 (amended): when a handler call returns with success the buffer of its
\* worker is empty; when it returns with failure the buffer still holds the
\* failed batch and the worker goes on to report and terminate.
C30_BufferResetOnSuccess ==
    [][\A w \in Workers :
        (wpc[w] = "handler" /\ wpc'[w] # "handler") =>
            IF batches'[InFlight(w)].res = "ok"
            THEN queue'[w] = <<>>
            ELSE /\ batches'[InFlight(w)].res = "fail"
                 /\ queue'[w] = batches[InFlight(w)].items
                 /\ queue'[w] # <<>>
                 /\ wpc'[w] = "report"]_vars

C30_Witness ==
    \E w \in Workers :
        /\ wpc[w] = "report" /\ Len(queue[w]) = 2
        /\ \E i \in 1 .. Len(batches) : batches[i].w = w /\ batches[i].res = "ok"

\* C22: after an external cancellation the feeder eventually stops and
\* closes the intake, whether it was waiting for the stream or in Consume.
C22_FeederStopsOnCancel == ctxDone ~> (fpc = "done" /\ closed)

C23_GracefulShutdown ==
    ctxDone ~>
        /\ mpc = "returned"
        /\ \A w \in Workers : wpc[w] \in {"idle", "done"}
        /\ \A p \in Registered : ppc[p] = "done"

C23_Witness ==
    /\ ctxDone /\ mpc = "returned"
    /\ ~closed
    /\ \E i \in 1 .. Len(batches) : batches[i].cause = "ctx" /\ wpc[batches[i].w] = "done"

\* the items worker w has passed to the handler, in the order of its calls
RECURSIVE ConcatOf(_, _)
ConcatOf(w, bs) ==
    IF bs = <<>> THEN <<>>
    ELSE (IF Head(bs).w = w THEN Head(bs).items ELSE <<>>) \o ConcatOf(w, Tail(bs))

\* s can be obtained from t by deleting elements
RECURSIVE IsSubseq(_, _)
IsSubseq(s, t) ==
    IF s = <<>> THEN TRUE
    ELSE IF t = <<>> THEN FALSE
    ELSE IF Head(s) = Head(t) THEN IsSubseq(Tail(s), Tail(t))
    ELSE IsSubseq(s, Tail(t))

\* C31: for every worker, the concatenation of its batches, in the order it
\* flushed them, is a subsequence of the sequence of the submitted items.
C31_WorkerKeepsOrder ==
    \A w \in Workers : IsSubseq(ConcatOf(w, batches), submitted)

C31_Witness ==
    /\ cfg.WorkerNum = 2
    /\ Len(batches) = 2
    /\ batches[1].items = <<2>> /\ batches[2].items = <<1>>
    /\ batches[1].w # batches[2].w

\* C32: every launched pipeline eventually gets a permit and runs; every
\* pipeline that got a permit gives it back, whether its Run returned nil or
\* an error; RunAll eventually returns, with every registered pipeline done
\* and no permit held.
C32_PermitsAndReturn ==
    /\ \A p \in Pipes : (ppc[p] = "acquire") ~> (ppc[p] = "run")
    /\ \A p \in Pipes : (ppc[p] = "run") ~> (ppc[p] = "done" /\ pstage[p] \in {"ok", "fail"})
    /\ [][\A p \in Pipes : (ppc[p] # "done" /\ ppc'[p] = "done") => sem' = sem - 1]_vars
    /\ <>(mpc = "returned")
    /\ [](mpc = "returned" => sem = 0 /\ \A p \in Registered : ppc[p] = "done")

C32_Witness ==
    /\ mpc = "returned"
    /\ npipes > mcfg.WorkerNum
    /\ sem = 0
    /\ \E p \in Registered : pstage[p] = "ok"
    /\ \E p \in Registered : pstage[p] = "fail"

\* C33: a Load call begins only after PreProcess has returned nil and
\* Extract has returned the stream; when PostProcess is called no Load call
\* is in flight and every worker has terminated, and no Load call begins
\* after it.
C33_LifecycleOrder ==
    /\ [](batches # <<>> =>
            /\ Len(calls) >= 2
            /\ calls[1] = [op |-> "PreProcess", ok |-> TRUE]
            /\ calls[2] = [op |-> "Extract", ok |-> TRUE])
    /\ [](PostCalled =>
            /\ \A i \in 1 .. Len(batches) : batches[i].lres # "run"
            /\ \A w \in Workers : wpc[w] \in {"idle", "done"})
    /\ [][PostCalled => batches' = batches]_vars

C33_Witness ==
    /\ PostCalled
    /\ cfg.WorkerNum = 2
    /\ \A w \in 0 .. 1 : wpc[w] = "done" /\ \E i \in 1 .. Len(batches) : batches[i].w = w
    /\ fpc = "done"

\* the number of calls of op that pipeline p has made on its processor
NCalls(p, op) == Cardinality({i \in 1 .. Len(pcalls[p]) : pcalls[p][i].op = op})

\* C34: in one RunAll the PreProcess of a pipeline is called exactly once
\* (once the pipeline has run) and its PostProcess at most once.
C34_SetupOnceTeardownOnce ==
    \A p \in Registered :
        /\ NCalls(p, "PreProcess") <= 1
        /\ NCalls(p, "PostProcess") <= 1
        /\ ppc[p] = "done" => NCalls(p, "PreProcess") = 1

\* the items of the whole extraction stream
StreamData == [k \in 1 .. Len(stream) |-> stream[k].Data]

\* C35: if Run returns nil, the stream held no failure result, and every item
\* of the stream is in exactly one batch, whose Load returned nil.
C35_SuccessMeansAllLoaded ==
    (epc = "returned" /\ eret = "nil") =>
        /\ \A k \in 1 .. Len(stream) : ~stream[k].Err
        /\ SameMultiset(Concat(batches), StreamData)
        /\ \A i \in 1 .. Len(batches) : batches[i].lres = "ok"

\* C36: after a failed Load has made Bucket.Run return, the feeder eventually
\* terminates and the intake is closed.
C36_FeederEndsAfterFailure ==
    (SomeFail /\ rpc = "returned") ~> (fpc = "done" /\ closed)

\* C37: within one run of ETL.Run, Close is called at most once, the intake is
\* closed exactly when Close has been called, and once it is closed the feeder
\* has returned, so that no Consume follows a Close.
C37_CloseOnceThenNoConsume ==
    /\ ncloses <= 1
    /\ closed <=> ncloses = 1
    /\ closed => fpc = "done"
    /\ fpc = "consume" => ~closed

\* the feeder has submitted an item and then closed the intake on cancellation
C37_Witness ==
    /\ epc = "returned"
    /\ ctxDone
    /\ closed
    /\ ncloses = 1
    /\ fpc = "done"
    /\ extractor # <<>>
    /\ Len(submitted) >= 1

\* C38: while RunAll runs several pipelines, no step of a pipeline changes the
\* bucket configuration the manager shares among them.
C38_SharedConfigNotWritten ==
    [][(npipes >= 2 /\ mpc = "wait") => cfg' = cfg]_vars

\* the pipelines that hold a permit: inside p.Run or about to give it back
Holding == {p \in Pipes : ppc[p] \in {"run", "release"}}

\* the pipelines that have sent their result
Recorded == {p \in Pipes : ppc[p] \in {"release", "done"}}

\* C39: the permits held are as many as the pipelines inside their Run, one
\* result is recorded for each pipeline whose Run has returned, the send on
\* results always finds room, and when RunAll has returned no permit is
\* held and there are as many results as registered pipelines.
C39_PermitsAndResultsBalance ==
    /\ sem = Cardinality(Holding)
    /\ Len(results) = Cardinality(Recorded)
    /\ \A p \in Pipes :
          (ppc[p] = "run" /\ pstage[p] \in {"ok", "fail"}) => Len(results) < ResultsCap
    /\ (mpc = "returned" /\ npipes > 0) =>
          /\ sem = 0
          /\ Len(results) = npipes
          /\ Recorded = Registered

\* both pipelines hold a permit, one has recorded its result and the other is
\* about to
C39_Witness ==
    /\ mcfg.WorkerNum = 2
    /\ npipes = 2
    /\ sem = 2
    /\ Len(results) = 1
    /\ \E p \in Registered : ppc[p] = "run" /\ pstage[p] \in {"ok", "fail"}
    /\ \E p \in Registered : ppc[p] = "release"

====
